---- MODULE Spec2Model ----
(***************************************************************************)
(* The shared minesweeper match of the server (server.ts): the board       *)
(* generator createNewGame, the match engine revealCell / checkWin /       *)
(* checkTimeout, and the socket handlers click, flag, reset and the        *)
(* 1-second tick, each handler taken as one atomic step (Node runs every   *)
(* callback to completion).                                                *)
(***************************************************************************)
EXTENDS Integers, Sequences, FiniteSets, TLC

VARIABLES gameState, now, fault, lastOp, clientState, inbox

vars == <<gameState, now, fault, lastOp, clientState, inbox>>

(***************************************************************************)
(* Bounds of the model.                                                    *)
(***************************************************************************)
\* Date.now() when the process starts (any positive number of milliseconds).
StartClock == 5000
\* The clock is not advanced beyond StartClock + MaxElapsed.
MaxElapsed == 120000
\* The amounts of milliseconds by which the clock advances between events.
ClockSteps == {119999, 120000}
\* Math.random is a stream of cell draws seed, seed + stride, seed + 2*stride ...
MaxSeed == 1
MaxStride == 2
\* Draws of Math.random looked at by one mine placement.
MaxDraws == 64
\* Row and column indexes that clients send are 0..MaxCoord.
MaxCoord == 2
\* The matches that are played: <<rows, cols, mines>>.
PlayConfigs == {<<1, 1, 0>>, <<2, 3, 0>>, <<2, 3, 1>>, <<2, 3, 2>>, <<3, 3, 0>>, <<3, 3, 1>>}

\* endTime: null
Null == -1
MaxInbox == 1

Cells(rows, cols) == (0 .. rows - 1) \X (0 .. cols - 1)

(***************************************************************************)
(* createNewGame                                                           *)
(***************************************************************************)
\* grid[r][c] = { r, c, isMine: false, isRevealed: false, isFlagged: false,
\*                neighborMines: 0 }
EmptyGrid(rows, cols) ==
    [p \in Cells(rows, cols) |->
        [isMine |-> FALSE, isRevealed |-> FALSE, isFlagged |-> FALSE,
         neighborMines |-> 0]]

\* The k-th pair (Math.floor(Math.random() * rows), Math.floor(Math.random() * cols))
\* of the random stream rnd = <<seed, stride>>.
Draw(rnd, k, rows, cols) ==
    LET idx == (rnd[1] + k * rnd[2]) % (rows * cols)
    IN  <<idx \div cols, idx % cols>>

\* while (minesPlaced < mines) { draw r, c; if (!grid[r][c].isMine) { ...; minesPlaced++ } }
\* ok = FALSE: the loop is still running after MaxDraws draws.
RECURSIVE PlaceMines(_, _, _, _, _, _, _)
PlaceMines(grid, minesPlaced, mines, rows, cols, rnd, k) ==
    IF ~(minesPlaced < mines) THEN [ok |-> TRUE, grid |-> grid]
    ELSE IF k >= MaxDraws THEN [ok |-> FALSE, grid |-> grid]
    ELSE LET p == Draw(rnd, k, rows, cols)
         IN  IF ~grid[p].isMine
             THEN PlaceMines([grid EXCEPT ![p].isMine = TRUE], minesPlaced + 1,
                             mines, rows, cols, rnd, k + 1)
             ELSE PlaceMines(grid, minesPlaced, mines, rows, cols, rnd, k + 1)

\* The in-grid cells (nr, nc) = (r + dr, c + dc), dr, dc in -1..1 (the cell itself
\* included, as in the loops of the source).
Around(p, rows, cols) ==
    {q \in (p[1] - 1 .. p[1] + 1) \X (p[2] - 1 .. p[2] + 1) :
        /\ q[1] >= 0 /\ q[1] < rows
        /\ q[2] >= 0 /\ q[2] < cols}

\* Mutant: the diagonal neighbours are not counted.
CalcNeighbors_Mut(grid, rows, cols) ==
    [p \in Cells(rows, cols) |->
        IF grid[p].isMine THEN grid[p]
        ELSE [grid[p] EXCEPT !.neighborMines =
                 Cardinality({q \in Around(p, rows, cols) :
                                 grid[q].isMine /\ (q[1] = p[1] \/ q[2] = p[2])})]]

\* Calculate neighbors: mine cells are skipped and keep neighborMines = 0.
CalcNeighbors(grid, rows, cols) ==
    [p \in Cells(rows, cols) |->
        IF grid[p].isMine THEN grid[p]
        ELSE [grid[p] EXCEPT !.neighborMines =
                 Cardinality({q \in Around(p, rows, cols) : grid[q].isMine})]]

\* Mutant: the limit follows the number of cells.
TimeLimitFor_Mut(rows, cols) ==
    IF rows * cols = 16 * 30 THEN 600
    ELSE IF rows * cols = 16 * 16 THEN 300
    ELSE 120

\* Time limits based on difficulty.
TimeLimitFor(rows, cols) ==
    LET t0 == 120
        t1 == IF rows = 16 /\ cols = 16 THEN 300 ELSE t0
    IN  IF rows = 16 /\ cols = 30 THEN 600 ELSE t1

\* The mine placement loop can end only if the board has room for the mines.
PlacementEnds(rows, cols, mines) == mines <= rows * cols

createNewGame(rows, cols, mines, rnd, t) ==
    [grid |-> CalcNeighbors(PlaceMines(EmptyGrid(rows, cols), 0, mines,
                                       rows, cols, rnd, 0).grid, rows, cols),
     rows |-> rows,
     cols |-> cols,
     mines |-> mines,
     status |-> "playing",
     startTime |-> t,
     endTime |-> Null,
     timeLimit |-> TimeLimitFor(rows, cols)]

\* The random streams that let the placement loop end within MaxDraws draws.
Streams(rows, cols, mines) ==
    {rnd \in (0 .. MaxSeed) \X (1 .. MaxStride) :
        PlaceMines(EmptyGrid(rows, cols), 0, mines, rows, cols, rnd, 0).ok}

Init ==
    /\ now = StartClock
    /\ fault = "none"
    /\ lastOp = [op |-> "init", target |-> "none", ret |-> FALSE, emit |-> FALSE]
    /\ clientState = <<>>
    /\ inbox = <<>>
    /\ \E b \in PlayConfigs :
         \E rnd \in Streams(b[1], b[2], b[3]) :
            gameState = createNewGame(b[1], b[2], b[3], rnd, StartClock)

(***************************************************************************)
(* revealCell, checkWin, checkTimeout                                      *)
(***************************************************************************)
\* Mutant: the other mines stay hidden.
RevealAllMines_Mut(grid) == grid

\* Mutant: the flags of the mines are cleared as they are revealed.
RevealAllMines_MutUnflag(grid) ==
    [p \in DOMAIN grid |->
        IF grid[p].isMine
        THEN [grid[p] EXCEPT !.isRevealed = TRUE, !.isFlagged = FALSE]
        ELSE grid[p]]

\* gameState.grid.forEach(row => row.forEach(cell => { if (cell.isMine) cell.isRevealed = true }))
RevealAllMines(grid) ==
    [p \in DOMAIN grid |->
        IF grid[p].isMine THEN [grid[p] EXCEPT !.isRevealed = TRUE] ELSE grid[p]]

unrevealedSafeCells(gs) ==
    Cardinality({p \in DOMAIN gs.grid :
                    ~gs.grid[p].isMine /\ ~gs.grid[p].isRevealed})

\* Mutant: flagged cells are not counted among the unrevealed safe cells.
checkWin_Mut(gs, t) ==
    IF Cardinality({p \in DOMAIN gs.grid :
                       /\ ~gs.grid[p].isMine
                       /\ ~gs.grid[p].isRevealed
                       /\ ~gs.grid[p].isFlagged}) = 0
    THEN [gs EXCEPT !.status = "won", !.endTime = t]
    ELSE gs

\* Mutant: the win is recorded without its end time.
checkWin_MutEnd(gs, t) ==
    IF unrevealedSafeCells(gs) = 0
    THEN [gs EXCEPT !.status = "won"]
    ELSE gs

checkWin(gs, t) ==
    IF unrevealedSafeCells(gs) = 0
    THEN [gs EXCEPT !.status = "won", !.endTime = t]
    ELSE gs

\* revealCell calls itself for the in-grid cells among the nine (r + dr, c + dc),
\* in the order of the two for loops: s[k] is the match after the k-th call.
RECURSIVE revealCell(_, _, _, _)
\* Mutant: the neighbours of a zero cell are not revealed.
Visit_Mut(gs, nr, nc, t) == gs

Visit(gs, nr, nc, t) ==
    IF nr >= 0 /\ nr < gs.rows /\ nc >= 0 /\ nc < gs.cols
    THEN revealCell(gs, nr, nc, t)
    ELSE gs

\* Mutant: the flood goes to the four orthogonal neighbours only.
FloodFill_Mut(gs, r, c, t) ==
    LET s2 == Visit(gs, r - 1, c, t)
        s4 == Visit(s2, r, c - 1, t)
        s6 == Visit(s4, r, c + 1, t)
        s8 == Visit(s6, r + 1, c, t)
    IN  <<s2, s4, s6, s8>>[4]

FloodFill(gs, r, c, t) ==
    LET s1 == Visit(gs, r - 1, c - 1, t)
        s2 == Visit(s1, r - 1, c, t)
        s3 == Visit(s2, r - 1, c + 1, t)
        s4 == Visit(s3, r, c - 1, t)
        s5 == Visit(s4, r, c, t)
        s6 == Visit(s5, r, c + 1, t)
        s7 == Visit(s6, r + 1, c - 1, t)
        s8 == Visit(s7, r + 1, c, t)
        s9 == Visit(s8, r + 1, c + 1, t)
    IN  <<s1, s2, s3, s4, s5, s6, s7, s8, s9>>[9]

\* Mutant: a flagged cell is revealed like any other.
revealCell_MutFlag(gs, r, c, t) ==
    IF gs.status # "playing" THEN gs
    ELSE LET cell == gs.grid[<<r, c>>]
             g1 == [gs EXCEPT !.grid[<<r, c>>].isRevealed = TRUE]
         IN  IF cell.isRevealed THEN gs
             ELSE IF cell.isMine
             THEN [g1 EXCEPT !.status = "lost", !.endTime = t,
                             !.grid = RevealAllMines(g1.grid)]
             ELSE checkWin(IF cell.neighborMines = 0
                           THEN FloodFill(g1, r, c, t)
                           ELSE g1, t)

\* Mutant: a numbered cell is expanded without being marked as revealed.
revealCell_MutMark(gs, r, c, t) ==
    IF gs.status # "playing" THEN gs
    ELSE LET cell == gs.grid[<<r, c>>]
             g1 == [gs EXCEPT !.grid[<<r, c>>].isRevealed = TRUE]
         IN  IF cell.isRevealed \/ cell.isFlagged THEN gs
             ELSE IF cell.isMine
             THEN [g1 EXCEPT !.status = "lost", !.endTime = t,
                             !.grid = RevealAllMines(g1.grid)]
             ELSE checkWin(IF cell.neighborMines = 0
                           THEN FloodFill(g1, r, c, t)
                           ELSE gs, t)

revealCell(gs, r, c, t) ==
    IF gs.status # "playing" THEN gs
    ELSE LET cell == gs.grid[<<r, c>>]
             g1 == [gs EXCEPT !.grid[<<r, c>>].isRevealed = TRUE]
         IN  IF cell.isRevealed \/ cell.isFlagged THEN gs
             ELSE IF cell.isMine
             THEN [g1 EXCEPT !.status = "lost", !.endTime = t,
                             !.grid = RevealAllMines(g1.grid)]
             ELSE checkWin(IF cell.neighborMines = 0
                           THEN FloodFill(g1, r, c, t)
                           ELSE g1, t)

\* The expansion steps of one call revealCell(r, c), in the order they happen: the
\* cells of the activations (the call and its nested calls) that get past the two
\* returns at the top and set cell.isRevealed = true.
RECURSIVE revealTrace(_, _, _, _)
VisitTrace(gs, nr, nc, t) ==
    IF nr >= 0 /\ nr < gs.rows /\ nc >= 0 /\ nc < gs.cols
    THEN revealTrace(gs, nr, nc, t)
    ELSE <<>>

revealTrace(gs, r, c, t) ==
    IF gs.status # "playing" THEN <<>>
    ELSE LET cell == gs.grid[<<r, c>>]
             g1 == [gs EXCEPT !.grid[<<r, c>>].isRevealed = TRUE]
         IN  IF cell.isRevealed \/ cell.isFlagged THEN <<>>
             ELSE IF cell.isMine \/ cell.neighborMines # 0 THEN <<<<r, c>>>>
             ELSE LET s1 == Visit(g1, r - 1, c - 1, t)
                      s2 == Visit(s1, r - 1, c, t)
                      s3 == Visit(s2, r - 1, c + 1, t)
                      s4 == Visit(s3, r, c - 1, t)
                      s5 == Visit(s4, r, c, t)
                      s6 == Visit(s5, r, c + 1, t)
                      s7 == Visit(s6, r + 1, c - 1, t)
                      s8 == Visit(s7, r + 1, c, t)
                  IN  <<<<r, c>>>>
                         \o VisitTrace(g1, r - 1, c - 1, t)
                         \o VisitTrace(s1, r - 1, c, t)
                         \o VisitTrace(s2, r - 1, c + 1, t)
                         \o VisitTrace(s3, r, c - 1, t)
                         \o VisitTrace(s4, r, c, t)
                         \o VisitTrace(s5, r, c + 1, t)
                         \o VisitTrace(s6, r + 1, c - 1, t)
                         \o VisitTrace(s7, r + 1, c, t)
                         \o VisitTrace(s8, r + 1, c + 1, t)

\* Nesting of revealCell (lines 98-129): the greatest number of activations
\* that are pending at the same moment during revealCell(r, c), counting the
\* activations that pass the early returns of lines 99-103.  The nested calls
\* of lines 115-126 run one after the other on the state the previous ones
\* left, each inside the activation that made it.
RECURSIVE revealDepth(_, _, _, _)
VisitDepth(gs, nr, nc, t) ==
    IF nr >= 0 /\ nr < gs.rows /\ nc >= 0 /\ nc < gs.cols
    THEN revealDepth(gs, nr, nc, t)
    ELSE 0

MaxOf(S) == CHOOSE m \in S : \A x \in S : x <= m

revealDepth(gs, r, c, t) ==
    IF gs.status # "playing" THEN 0
    ELSE LET cell == gs.grid[<<r, c>>]
             g1 == [gs EXCEPT !.grid[<<r, c>>].isRevealed = TRUE]
         IN  IF cell.isRevealed \/ cell.isFlagged THEN 0
             ELSE IF cell.isMine \/ cell.neighborMines # 0 THEN 1
             ELSE LET s1 == Visit(g1, r - 1, c - 1, t)
                      s2 == Visit(s1, r - 1, c, t)
                      s3 == Visit(s2, r - 1, c + 1, t)
                      s4 == Visit(s3, r, c - 1, t)
                      s5 == Visit(s4, r, c, t)
                      s6 == Visit(s5, r, c + 1, t)
                      s7 == Visit(s6, r + 1, c - 1, t)
                      s8 == Visit(s7, r + 1, c, t)
                  IN  1 + MaxOf({VisitDepth(g1, r - 1, c - 1, t),
                                 VisitDepth(s1, r - 1, c, t),
                                 VisitDepth(s2, r - 1, c + 1, t),
                                 VisitDepth(s3, r, c - 1, t),
                                 VisitDepth(s4, r, c, t),
                                 VisitDepth(s5, r, c + 1, t),
                                 VisitDepth(s6, r + 1, c - 1, t),
                                 VisitDepth(s7, r + 1, c, t),
                                 VisitDepth(s8, r + 1, c + 1, t)})

\* elapsed = Math.floor((Date.now() - gameState.startTime) / 1000)
Elapsed(gs, t) == (t - gs.startTime) \div 1000

\* Mutant: a match that is over can still time out.
TimeoutExpired_MutStatus(gs, t) ==
    /\ ~(gs.startTime = 0 \/ gs.startTime = Null)
    /\ Elapsed(gs, t) >= gs.timeLimit

\* Mutant: the match expires one second late.
TimeoutExpired_MutLate(gs, t) ==
    /\ ~(gs.status # "playing" \/ gs.startTime = 0 \/ gs.startTime = Null)
    /\ Elapsed(gs, t) > gs.timeLimit

\* The return value of checkTimeout.
TimeoutExpired(gs, t) ==
    /\ ~(gs.status # "playing" \/ gs.startTime = 0 \/ gs.startTime = Null)
    /\ Elapsed(gs, t) >= gs.timeLimit

\* Mutant: the expiry also clears the start time.
checkTimeout_MutStart(gs, t) ==
    IF TimeoutExpired(gs, t)
    THEN [gs EXCEPT !.status = "lost", !.endTime = t, !.startTime = Null,
                    !.grid = RevealAllMines(gs.grid)]
    ELSE gs

\* Mutant: an expired match is left as it is.
checkTimeout_MutNoop(gs, t) == gs

\* The match after checkTimeout.
checkTimeout(gs, t) ==
    IF TimeoutExpired(gs, t)
    THEN [gs EXCEPT !.status = "lost", !.endTime = t,
                    !.grid = RevealAllMines(gs.grid)]
    ELSE gs

\* Mutant: a revealed cell can be flagged.
toggleFlag_MutRevealed(gs, r, c) ==
    IF gs.status # "playing" THEN gs
    ELSE [gs EXCEPT !.grid[<<r, c>>].isFlagged = ~gs.grid[<<r, c>>].isFlagged]

\* Mutant: the flag is set, never cleared.
toggleFlag_MutSet(gs, r, c) ==
    IF gs.status # "playing" THEN gs
    ELSE IF ~gs.grid[<<r, c>>].isRevealed
    THEN [gs EXCEPT !.grid[<<r, c>>].isFlagged = TRUE]
    ELSE gs

\* Mutant: the match is won when every mine is flagged.
toggleFlag_MutWin(gs, r, c) ==
    IF gs.status # "playing" THEN gs
    ELSE IF ~gs.grid[<<r, c>>].isRevealed
    THEN LET g1 == [gs EXCEPT !.grid[<<r, c>>].isFlagged = ~gs.grid[<<r, c>>].isFlagged]
         IN  IF \A p \in DOMAIN g1.grid : g1.grid[p].isMine => g1.grid[p].isFlagged
             THEN [g1 EXCEPT !.status = "won"]
             ELSE g1
    ELSE gs

\* socket.on("flag"): the toggle, for a playing match and an in-range cell.
toggleFlag(gs, r, c) ==
    IF gs.status # "playing" THEN gs
    ELSE IF ~gs.grid[<<r, c>>].isRevealed
    THEN [gs EXCEPT !.grid[<<r, c>>].isFlagged = ~gs.grid[<<r, c>>].isFlagged]
    ELSE gs

(***************************************************************************)
(* The handlers                                                            *)
(***************************************************************************)
\* What a click or flag request aims at, seen before the handler runs.
TargetKind(gs, r, c) ==
    IF gs.status # "playing" THEN "ended"
    ELSE IF <<r, c>> \notin DOMAIN gs.grid THEN "outside"
    ELSE IF gs.grid[<<r, c>>].isRevealed THEN "revealed"
    ELSE IF gs.grid[<<r, c>>].isFlagged THEN "flagged"
    ELSE IF gs.grid[<<r, c>>].isMine THEN "mine"
    ELSE IF gs.grid[<<r, c>>].neighborMines = 0 THEN "zero"
    ELSE "number"

NumFlags(gs) == Cardinality({p \in DOMAIN gs.grid : gs.grid[p].isFlagged})

\* The client of App.tsx whose view the model follows has connected: it holds
\* a snapshot (clientState: <<>> for the null before the first gameUpdate,
\* line 34, then <<snapshot>>) or one is on its way to it (inbox, the
\* gameUpdate messages sent and not yet received, in the order sent).
Joined == clientState # <<>> \/ inbox # <<>>

\* io.emit("gameUpdate", gameState): when sent, the snapshot is queued for the
\* connected client.  At most MaxInbox messages are in flight.
Emit(sent, snapshot) ==
    /\ (sent /\ Joined) => Len(inbox) < MaxInbox
    /\ inbox' = IF sent /\ Joined THEN Append(inbox, snapshot) ELSE inbox
    /\ UNCHANGED clientState

\* socket.on("click", ({ r, c }) => { revealCell(r, c); io.emit(...) }).
\* gameState.grid[r][c] of a cell outside the grid is undefined, and reading
\* isRevealed of it throws a TypeError.
Click(r, c) ==
    LET kind == TargetKind(gameState, r, c)
    IN  /\ fault = "none"
        /\ IF kind = "outside"
           THEN /\ fault' = "TypeError"
                /\ UNCHANGED gameState
           ELSE /\ gameState' = revealCell(gameState, r, c, now)
                /\ UNCHANGED fault
        /\ lastOp' = [op |-> "click", target |-> kind, ret |-> FALSE,
                     emit |-> kind # "outside"]
        /\ Emit(kind # "outside", gameState')
        /\ UNCHANGED now

\* socket.on("flag", ({ r, c }) => ...)
\* The clients set a flag only while no cell is flagged (a flagged cell can always
\* be unflagged).
Flag(r, c) ==
    LET kind == TargetKind(gameState, r, c)
    IN  /\ fault = "none"
        /\ NumFlags(gameState) = 0 \/ kind \notin {"mine", "zero", "number"}
        /\ IF kind = "outside"
           THEN /\ fault' = "TypeError"
                /\ UNCHANGED gameState
           ELSE /\ gameState' = toggleFlag(gameState, r, c)
                /\ UNCHANGED fault
        /\ lastOp' = [op |-> "flag", target |-> kind, ret |-> FALSE,
                     emit |-> kind \in {"flagged", "mine", "zero", "number"}]
        /\ Emit(kind \in {"flagged", "mine", "zero", "number"}, gameState')
        /\ UNCHANGED now

\* Mutant: every tick broadcasts.
Tick_Mut ==
    /\ fault = "none"
    /\ gameState' = checkTimeout(gameState, now)
    /\ lastOp' = [op |-> "tick", target |-> "none",
                 ret |-> TimeoutExpired(gameState, now),
                 emit |-> TRUE]
    /\ Emit(TRUE, gameState')
    /\ UNCHANGED <<now, fault>>

\* Mutant: the tick never broadcasts.
Tick_MutSilent ==
    /\ fault = "none"
    /\ gameState' = checkTimeout(gameState, now)
    /\ lastOp' = [op |-> "tick", target |-> "none",
                 ret |-> TimeoutExpired(gameState, now),
                 emit |-> FALSE]
    /\ Emit(FALSE, gameState')
    /\ UNCHANGED <<now, fault>>

\* setInterval(() => { if (checkTimeout()) io.emit("gameUpdate", gameState) }, 1000)
Tick ==
    /\ fault = "none"
    /\ gameState' = checkTimeout(gameState, now)
    /\ lastOp' = [op |-> "tick", target |-> "none",
                 ret |-> TimeoutExpired(gameState, now),
                 emit |-> TimeoutExpired(gameState, now)]
    /\ Emit(TimeoutExpired(gameState, now), gameState')
    /\ UNCHANGED <<now, fault>>

\* A field of the reset payload: <<>> when absent, <<n>> when it is the number n.
Falsy(f) == f = <<>> \/ f = <<0>>

\* Mutant: the new match keeps the status and the end time of the match it
\* replaces.
Restart_Mut(g, old, t) ==
    [g EXCEPT !.startTime = t, !.status = old.status, !.endTime = old.endTime]

\* The match createNewGame returns at time t (startTime: Date.now()).
Restart(g, old, t) == [g EXCEPT !.startTime = t]

\* Mutant: only an absent field gets the default (?? instead of ||).
OrDefault_Mut(f, d) == IF f = <<>> THEN d ELSE f[1]

\* f || d
OrDefault(f, d) == IF Falsy(f) THEN d ELSE f[1]

\* The reset payloads that the clients of the played matches send.
PlayPayloads ==
    {<<<<2>>, <<3>>, <<2>>>>, <<<<3>>, <<3>>, <<1>>>>,
     <<<<2>>, <<3>>, <<6>>>>, <<<<3>>, <<3>>, <<0>>>>}

\* The reset request of another client while the client of App.tsx plays: a
\* smaller board.
NetPayloads == {<<<<1>>, <<3>>, <<1>>>>}

\* The reset payloads with absent and falsy fields and with the sizes of the
\* difficulty presets.
GenPayloads ==
    {<<<<>>, <<>>, <<>>>>, <<<<0>>, <<0>>, <<0>>>>,
     <<<<16>>, <<16>>, <<>>>>, <<<<16>>, <<16>>, <<0>>>>, <<<<16>>, <<16>>, <<40>>>>,
     <<<<16>>, <<30>>, <<40>>>>, <<<<16>>, <<30>>, <<>>>>, <<<<>>, <<30>>, <<40>>>>,
     <<<<16>>, <<>>, <<40>>>>, <<<<0>>, <<16>>, <<40>>>>, <<<<>>, <<>>, <<40>>>>,
     <<<<2>>, <<3>>, <<2>>>>, <<<<2>>, <<3>>, <<>>>>, <<<<2>>, <<3>>, <<0>>>>,
     <<<<2>>, <<>>, <<2>>>>, <<<<>>, <<3>>, <<2>>>>, <<<<0>>, <<3>>, <<2>>>>,
     <<<<2>>, <<0>>, <<2>>>>, <<<<2>>, <<0>>, <<0>>>>, <<<<>>, <<>>, <<2>>>>,
     <<<<16>>, <<3>>, <<40>>>>, <<<<2>>, <<30>>, <<40>>>>, <<<<2>>, <<16>>, <<>>>>,
     <<<<16>>, <<3>>, <<2>>>>, <<<<2>>, <<16>>, <<2>>>>, <<<<2>>, <<30>>, <<2>>>>,
     <<<<16>>, <<16>>, <<2>>>>, <<<<16>>, <<30>>, <<2>>>>, <<<<2>>, <<16>>, <<40>>>>,
     <<<<30>>, <<16>>, <<40>>>>, <<<<30>>, <<16>>, <<2>>>>, <<<<30>>, <<30>>, <<40>>>>}

\* The arguments rows || 10, cols || 10, mines || 15 of createNewGame.
ResetArgs(p) == <<OrDefault(p[1], 10), OrDefault(p[2], 10), OrDefault(p[3], 15)>>

\* The matches createNewGame can return for the payloads of the model, for every
\* random stream, as they are at time 0 (computed once).
NewGames ==
    [p \in PlayPayloads \cup GenPayloads \cup NetPayloads |->
        LET a == ResetArgs(p)
        IN  IF PlacementEnds(a[1], a[2], a[3])
            THEN {createNewGame(a[1], a[2], a[3], rnd, 0) :
                     rnd \in Streams(a[1], a[2], a[3])}
            ELSE {}]

\* socket.on("reset", ({ rows, cols, mines }) => {
\*   gameState = createNewGame(rows || 10, cols || 10, mines || 15); io.emit(...) })
\* With more mines than cells createNewGame never returns: the server hangs.
Reset(p) ==
    LET a == ResetArgs(p)
    IN  /\ fault = "none"
        /\ IF PlacementEnds(a[1], a[2], a[3])
           THEN /\ \E g \in NewGames[p] :
                      gameState' = Restart(g, gameState, now)
                /\ UNCHANGED fault
           ELSE /\ fault' = "hang"
                /\ UNCHANGED gameState
        /\ lastOp' = [op |-> "reset", target |-> gameState.status, ret |-> FALSE,
                     emit |-> PlacementEnds(a[1], a[2], a[3])]
        /\ Emit(PlacementEnds(a[1], a[2], a[3]), gameState')
        /\ UNCHANGED now

\* io.on("connection", (socket) => { socket.emit("gameUpdate", gameState); ... })
Connect ==
    /\ fault = "none"
    /\ lastOp' = [op |-> "connect", target |-> "none", ret |-> FALSE, emit |-> TRUE]
    /\ UNCHANGED <<gameState, now, fault, clientState, inbox>>

\* Time passes between two events.
AdvanceClock(d) ==
    /\ fault = "none"
    /\ now + d <= StartClock + MaxElapsed
    /\ now' = now + d
    /\ UNCHANGED <<gameState, fault, lastOp, clientState, inbox>>

Next ==
    \/ \E r \in 0 .. MaxCoord, c \in 0 .. MaxCoord : Click(r, c)
    \/ \E r \in 0 .. MaxCoord, c \in 0 .. MaxCoord : Flag(r, c)
    \/ Tick
    \/ \E p \in PlayPayloads : Reset(p)
    \/ Connect
    \/ \E d \in ClockSteps : AdvanceClock(d)

Spec == Init /\ [][Next]_vars

(***************************************************************************)
(* The server from its start, as matches are requested                     *)
(***************************************************************************)
\* let gameState = createNewGame(10, 10, 15)
InitGen ==
    /\ now = StartClock
    /\ fault = "none"
    /\ lastOp = [op |-> "init", target |-> "none", ret |-> FALSE, emit |-> FALSE]
    /\ clientState = <<>>
    /\ inbox = <<>>
    /\ \E rnd \in Streams(10, 10, 15) :
         gameState = createNewGame(10, 10, 15, rnd, StartClock)

NextGen == \E p \in GenPayloads : Reset(p)

SpecGen == InitGen /\ [][NextGen]_vars

(***************************************************************************)
(* One match as it is played: reveal and flag requests only, no clock      *)
(***************************************************************************)
NextPlay ==
    \/ \E r \in 0 .. MaxCoord, c \in 0 .. MaxCoord : Click(r, c)
    \/ \E r \in 0 .. MaxCoord, c \in 0 .. MaxCoord : Flag(r, c)

SpecPlay == Init /\ [][NextPlay]_vars

(***************************************************************************)
(* The server with one client of src/src/App.tsx connected to it: the      *)
(* client's requests are for cells of the board it last received, and the  *)
(* resets come from another client.  A request is handled in the order it  *)
(* was sent; what is late is the client's view (inbox).                    *)
(***************************************************************************)
\* io.on("connection", (socket) => { socket.emit("gameUpdate", gameState) })
\* for the client of App.tsx.
Join ==
    /\ fault = "none"
    /\ ~Joined
    /\ inbox' = <<gameState>>
    /\ lastOp' = [op |-> "connect", target |-> "none", ret |-> FALSE, emit |-> TRUE]
    /\ UNCHANGED <<gameState, now, fault, clientState>>

\* newSocket.on("gameUpdate", (state) => { setGameState(state) })
Receive ==
    /\ inbox # <<>>
    /\ clientState' = <<Head(inbox)>>
    /\ inbox' = Tail(inbox)
    /\ UNCHANGED <<gameState, now, fault, lastOp>>

\* handleCellClick: a cell of the rendered grid, while the client's snapshot
\* is playing.
ClientClick(r, c) ==
    /\ clientState # <<>>
    /\ clientState[1].status = "playing"
    /\ <<r, c>> \in DOMAIN clientState[1].grid
    /\ Click(r, c)

\* handleCellRightClick
ClientFlag(r, c) ==
    /\ clientState # <<>>
    /\ clientState[1].status = "playing"
    /\ <<r, c>> \in DOMAIN clientState[1].grid
    /\ Flag(r, c)

\* The match the client connects to.
InitNet ==
    /\ now = StartClock
    /\ fault = "none"
    /\ lastOp = [op |-> "init", target |-> "none", ret |-> FALSE, emit |-> FALSE]
    /\ clientState = <<>>
    /\ inbox = <<>>
    /\ \E rnd \in Streams(2, 3, 1) :
          gameState = createNewGame(2, 3, 1, rnd, StartClock)

NextNet ==
    \/ Join
    \/ Receive
    \/ \E r \in 0 .. MaxCoord, c \in 0 .. MaxCoord : ClientClick(r, c)
    \/ \E r \in 0 .. MaxCoord, c \in 0 .. MaxCoord : ClientFlag(r, c)
    \/ \E p \in NetPayloads : Reset(p)
    \/ Tick
    \/ \E d \in {MaxElapsed} : AdvanceClock(d)

SpecNet == InitNet /\ [][NextNet]_vars

(***************************************************************************)
(* The server while its clock advances and its tick keeps firing.  Over    *)
(* the modelled span of MaxElapsed ms the clock moves in two halves, and a *)
(* reset is taken while the match it starts can still run for its whole    *)
(* time limit within the span.                                             *)
(***************************************************************************)
LiveSteps == {MaxElapsed \div 2}

LiveReset(p) ==
    /\ now + 1000 * TimeLimitFor(ResetArgs(p)[1], ResetArgs(p)[2])
          <= StartClock + MaxElapsed
    /\ Reset(p)

NextLive ==
    \/ \E r \in 0 .. MaxCoord, c \in 0 .. MaxCoord : Click(r, c)
    \/ \E r \in 0 .. MaxCoord, c \in 0 .. MaxCoord : Flag(r, c)
    \/ Tick
    \/ \E p \in PlayPayloads : LiveReset(p)
    \/ \E d \in LiveSteps : AdvanceClock(d)

\* setInterval(..., 1000) fires again as long as the process runs, and
\* Date.now() grows: both are weakly fair.
SpecLive ==
    /\ Init
    /\ [][NextLive]_vars
    /\ WF_vars(Tick)
    /\ WF_vars(\E d \in LiveSteps : AdvanceClock(d))

(***************************************************************************)
(* revealCell of the standalone client (App.tsx): the flood fill is a       *)
(* worklist. st = [grid, queue, marked]: newGrid, queue, and the cells set  *)
(* to isRevealed = true so far, in order.                                   *)
(***************************************************************************)
\* Mutant: the worklist does not stop at flagged cells.
AppStep_MutFlag(st, nr, nc, rows, cols) ==
    IF /\ nr >= 0 /\ nr < rows /\ nc >= 0 /\ nc < cols
       /\ ~st.grid[<<nr, nc>>].isRevealed
       /\ ~st.grid[<<nr, nc>>].isMine
    THEN [grid |-> [st.grid EXCEPT ![<<nr, nc>>].isRevealed = TRUE],
          queue |-> IF st.grid[<<nr, nc>>].neighborMines = 0
                    THEN Append(st.queue, <<nr, nc>>)
                    ELSE st.queue,
          marked |-> Append(st.marked, <<nr, nc>>)]
    ELSE st

\* The body of the two for loops for one (nr, nc).
AppStep(st, nr, nc, rows, cols) ==
    IF /\ nr >= 0 /\ nr < rows /\ nc >= 0 /\ nc < cols
       /\ ~st.grid[<<nr, nc>>].isRevealed
       /\ ~st.grid[<<nr, nc>>].isFlagged
       /\ ~st.grid[<<nr, nc>>].isMine
    THEN [grid |-> [st.grid EXCEPT ![<<nr, nc>>].isRevealed = TRUE],
          queue |-> IF st.grid[<<nr, nc>>].neighborMines = 0
                    THEN Append(st.queue, <<nr, nc>>)
                    ELSE st.queue,
          marked |-> Append(st.marked, <<nr, nc>>)]
    ELSE st

\* for (dr ...) for (dc ...) around the dequeued cell (cr, cc).
AppExpand(st, cr, cc, rows, cols) ==
    LET s1 == AppStep(st, cr - 1, cc - 1, rows, cols)
        s2 == AppStep(s1, cr - 1, cc, rows, cols)
        s3 == AppStep(s2, cr - 1, cc + 1, rows, cols)
        s4 == AppStep(s3, cr, cc - 1, rows, cols)
        s5 == AppStep(s4, cr, cc, rows, cols)
        s6 == AppStep(s5, cr, cc + 1, rows, cols)
        s7 == AppStep(s6, cr + 1, cc - 1, rows, cols)
        s8 == AppStep(s7, cr + 1, cc, rows, cols)
        s9 == AppStep(s8, cr + 1, cc + 1, rows, cols)
    IN  <<s1, s2, s3, s4, s5, s6, s7, s8, s9>>[9]

\* while (queue.length > 0) { const [cr, cc] = queue.shift(); ... }
\* dequeued: the cells taken from the queue so far, in order.
RECURSIVE AppFlood(_, _, _, _)
AppFlood(st, dequeued, rows, cols) ==
    IF st.queue = <<>>
    THEN [grid |-> st.grid, marked |-> st.marked, dequeued |-> dequeued]
    ELSE LET h == Head(st.queue)
         IN  AppFlood(AppExpand([st EXCEPT !.queue = Tail(st.queue)],
                                h[1], h[2], rows, cols),
                      Append(dequeued, h), rows, cols)

\* revealCell(r, c, state) of the client: the state it returns, with the cells it
\* marked and the cells it took from the queue.
AppRevealCell(state, r, c, t) ==
    IF state.status # "playing"
    THEN [state |-> state, marked |-> <<>>, dequeued |-> <<>>]
    ELSE IF state.grid[<<r, c>>].isRevealed \/ state.grid[<<r, c>>].isFlagged
    THEN [state |-> state, marked |-> <<>>, dequeued |-> <<>>]
    ELSE LET newGrid == [state.grid EXCEPT ![<<r, c>>].isRevealed = TRUE]
         IN  IF newGrid[<<r, c>>].isMine
             THEN [state |-> [state EXCEPT !.grid = RevealAllMines(newGrid),
                                           !.status = "lost", !.endTime = t],
                   marked |-> <<<<r, c>>>>, dequeued |-> <<>>]
             ELSE LET f == IF newGrid[<<r, c>>].neighborMines = 0
                           THEN AppFlood([grid |-> newGrid, queue |-> <<<<r, c>>>>,
                                          marked |-> <<<<r, c>>>>],
                                         <<>>, state.rows, state.cols)
                           ELSE [grid |-> newGrid, marked |-> <<<<r, c>>>>,
                                 dequeued |-> <<>>]
                      unrevealed == Cardinality({p \in DOMAIN f.grid :
                                       ~f.grid[p].isMine /\ ~f.grid[p].isRevealed})
                  IN  [state |-> IF unrevealed = 0
                                 THEN [state EXCEPT !.grid = f.grid,
                                                    !.status = "won", !.endTime = t]
                                 ELSE [state EXCEPT !.grid = f.grid],
                       marked |-> f.marked, dequeued |-> f.dequeued]

(***************************************************************************)
(* The claims                                                              *)
(***************************************************************************)
Grid == gameState.grid
Coords == 0 .. MaxCoord
InGrid(r, c) == <<r, c>> \in DOMAIN Grid
MineCells == {p \in DOMAIN Grid : Grid[p].isMine}
HiddenSafeCells == {p \in DOMAIN Grid : ~Grid[p].isMine /\ ~Grid[p].isRevealed}
FlaggedCells == {p \in DOMAIN Grid : Grid[p].isFlagged}
RevealedCells == {p \in DOMAIN Grid : Grid[p].isRevealed}

\* This step is a handler (the clock stands still) for a request op aimed at a cell
\* of the kinds given.
Handles(op, kinds) ==
    /\ now' = now
    /\ lastOp'.op = op
    /\ lastOp'.target \in kinds

\* C1: on a board with mines < rows * cols, in every reachable state the status is
\* won if and only if no safe (non-mine) cell is unrevealed.
C1_WonIffNoHiddenSafeCell ==
    gameState.mines < gameState.rows * gameState.cols
        => ((gameState.status = "won") <=> (HiddenSafeCells = {}))

\* A click has just won a match that has mines, one of them flagged.
C1_Witness ==
    /\ gameState.status = "won"
    /\ lastOp.op = "click"
    /\ gameState.mines > 0
    /\ FlaggedCells # {}
    /\ HiddenSafeCells = {}

\* C2: while playing, a click on an unrevealed, unflagged mine sets status = lost,
\* sets endTime, and leaves every mine of the board revealed.
C2_MineRevealLoses ==
    [][(/\ gameState.status = "playing"
        /\ Handles("click", {"mine"}))
          => /\ gameState'.status = "lost"
             /\ gameState'.endTime = now
             /\ \A p \in MineCells : gameState'.grid[p].isRevealed]_vars

\* A click on one of two mines has lost the match, and both mines are revealed.
C2_Witness ==
    /\ lastOp.op = "click"
    /\ lastOp.target = "mine"
    /\ gameState.status = "lost"
    /\ Cardinality(MineCells) = 2
    /\ MineCells \subseteq RevealedCells
    /\ gameState.endTime = now

\* C3 as stated: in every reachable state no cell is both revealed and flagged.
C3_NeverRevealedAndFlagged ==
    \A p \in DOMAIN Grid : ~(Grid[p].isRevealed /\ Grid[p].isFlagged)

\* C3 amended: a cell that is both revealed and flagged is a mine of a lost match
\* (the loss reveals every mine and leaves its flag); while the match is playing or
\* won, and for every safe cell, revealed and flagged exclude each other.
C3_RevealedAndFlaggedOnlyLostMine ==
    \A p \in DOMAIN Grid :
        (Grid[p].isRevealed /\ Grid[p].isFlagged)
            => (Grid[p].isMine /\ gameState.status = "lost")

\* A flagged mine has been revealed by the loss of the match.
C3_Witness ==
    /\ gameState.status = "lost"
    /\ \E p \in MineCells : Grid[p].isRevealed /\ Grid[p].isFlagged

\* C4: once the status is won or lost, no click, flag or tick changes the match; the
\* match changes only by a reset, which installs a new playing match.
C4_WonLostTerminal ==
    [][gameState.status # "playing"
          => \/ gameState' = gameState
             \/ /\ lastOp'.op = "reset"
                /\ gameState'.status = "playing"
                /\ gameState'.endTime = Null]_vars

\* A click, flag or tick was handled on a match that was over, and it is still over.
C4_Witness ==
    /\ gameState.status = "won"
    /\ lastOp.op \in {"click", "flag"}
    /\ lastOp.target = "ended"
    /\ now >= gameState.startTime + 1000 * gameState.timeLimit

\* C5: a click on a cell that is already revealed, or flagged, leaves the whole
\* match unchanged (a flagged mine is not detonated, a flagged safe cell not revealed).
C5_RevealBlocked ==
    [][Handles("click", {"revealed", "flagged"})
          => /\ gameState' = gameState
             /\ fault' = "none"]_vars

\* The flagged mine of the board was clicked and the match is still playing.
C5_Witness ==
    /\ lastOp.op = "click"
    /\ lastOp.target = "flagged"
    /\ gameState.status = "playing"
    /\ FlaggedCells # {}
    /\ FlaggedCells \subseteq MineCells
    /\ MineCells \cap RevealedCells = {}
\* Cells q and y are 8-neighbours.
Adjacent(q, y) ==
    /\ q # y
    /\ q[1] - y[1] \in {-1, 0, 1}
    /\ q[2] - y[2] \in {-1, 0, 1}

\* The in-grid 8-neighbours of cell y.
Neighbours(y) == {q \in DOMAIN Grid : Adjacent(q, y)}

\* The least set that contains S and, for each of its cells y with neighborMines = 0,
\* every neighbour of y that is unrevealed and unflagged in the current state.
RECURSIVE FloodClosure(_)
FloodClosure(S) ==
    LET T == S \cup {q \in DOMAIN Grid :
                        /\ ~Grid[q].isRevealed
                        /\ ~Grid[q].isFlagged
                        /\ \E y \in S : Grid[y].neighborMines = 0 /\ Adjacent(q, y)}
    IN  IF T = S THEN S ELSE FloodClosure(T)

\* C6: a click on an unrevealed, unflagged safe cell x with neighborMines = 0 of a
\* playing match reveals exactly the cells of the least set R (x, and the unrevealed
\* unflagged neighbours of every zero cell of R) besides those revealed before; no
\* mine and no flagged cell becomes revealed, and nothing else of a cell changes.
C6_FloodFillExact ==
    [][Handles("click", {"zero"})
          => \A r \in Coords, c \in Coords :
                (TargetKind(gameState, r, c) = "zero" /\ Click(r, c))
                    => LET R == FloodClosure({<<r, c>>})
                       IN  \A p \in DOMAIN Grid :
                              /\ gameState'.grid[p].isRevealed
                                    = (Grid[p].isRevealed \/ p \in R)
                              /\ (gameState'.grid[p].isRevealed /\ ~Grid[p].isRevealed)
                                    => (~Grid[p].isMine /\ ~Grid[p].isFlagged)
                              /\ gameState'.grid[p].isFlagged = Grid[p].isFlagged
                              /\ gameState'.grid[p].isMine = Grid[p].isMine
                              /\ gameState'.grid[p].neighborMines
                                    = Grid[p].neighborMines]_vars

\* A click on a zero cell has flooded part of a board: a flagged safe cell and an
\* unflagged safe cell are still hidden, a numbered cell has been revealed.
C6_Witness ==
    /\ lastOp.op = "click"
    /\ lastOp.target = "zero"
    /\ gameState.status = "playing"
    /\ \E p \in HiddenSafeCells : Grid[p].isFlagged
    /\ \E p \in HiddenSafeCells : ~Grid[p].isFlagged
    /\ \E p \in RevealedCells : Grid[p].neighborMines > 0
    /\ \E p \in RevealedCells : Grid[p].neighborMines = 0

\* C7: while playing, a flag request for an unrevealed cell changes the match, and
\* the same request once more returns it to exactly the match before the first one;
\* a flag request for a revealed cell leaves the match unchanged.
C7_FlagToggleInvolution ==
    [][(/\ gameState.status = "playing"
        /\ Handles("flag", {"mine", "zero", "number", "flagged", "revealed"}))
          => IF lastOp'.target = "revealed"
             THEN gameState' = gameState
             ELSE \E x \in DOMAIN Grid :
                     /\ ~Grid[x].isRevealed
                     /\ gameState'.grid[x].isFlagged # Grid[x].isFlagged
                     /\ toggleFlag(gameState', x[1], x[2]) = gameState]_vars

\* A flag request has removed the flag of a cell, on a board with revealed cells.
C7_Witness ==
    /\ lastOp.op = "flag"
    /\ lastOp.target = "flagged"
    /\ gameState.status = "playing"
    /\ FlaggedCells = {}
    /\ RevealedCells # {}

\* C8: a tick on a playing match less than timeLimit whole seconds after startTime
\* changes nothing and returns false; from timeLimit seconds on it sets status =
\* lost and endTime, reveals every mine and returns true.
C8_TimeoutCheck ==
    [][(/\ gameState.status = "playing"
        /\ now' = now
        /\ lastOp'.op = "tick")
          => IF now - gameState.startTime < 1000 * gameState.timeLimit
             THEN /\ gameState' = gameState
                  /\ lastOp'.ret = FALSE
             ELSE /\ gameState'.status = "lost"
                  /\ gameState'.endTime = now
                  /\ \A p \in MineCells : gameState'.grid[p].isRevealed
                  /\ lastOp'.ret = TRUE]_vars

\* The tick exactly 120000 ms after startTime has expired a match with timeLimit 120
\* and revealed its mines.
C8_Witness ==
    /\ lastOp.op = "tick"
    /\ lastOp.ret = TRUE
    /\ gameState.status = "lost"
    /\ gameState.timeLimit = 120
    /\ now - gameState.startTime = 120000
    /\ gameState.endTime = now
    /\ MineCells # {}
    /\ MineCells \subseteq RevealedCells

\* C9: a board that createNewGame returns for 0 <= mines < rows * cols has exactly
\* `mines` mine cells, every safe cell's neighborMines is the number of its in-grid
\* 8-neighbours that are mines, and every cell is unrevealed and unflagged.
C9_GeneratedBoard ==
    (/\ lastOp.op \in {"init", "reset"}
     /\ fault = "none"
     /\ gameState.mines < gameState.rows * gameState.cols)
        => /\ DOMAIN Grid = Cells(gameState.rows, gameState.cols)
           /\ Cardinality(MineCells) = gameState.mines
           /\ \A p \in DOMAIN Grid :
                 /\ ~Grid[p].isRevealed
                 /\ ~Grid[p].isFlagged
                 /\ ~Grid[p].isMine
                       => Grid[p].neighborMines
                             = Cardinality(Neighbours(p) \cap MineCells)

\* A reset has produced a board with two mines, a cell that touches both and a
\* cell that touches one of them.
C9_Witness ==
    /\ lastOp.op = "reset"
    /\ fault = "none"
    /\ gameState.mines = 2
    /\ Cardinality(MineCells) = 2
    /\ \E p \in DOMAIN Grid : ~Grid[p].isMine /\ Grid[p].neighborMines = 2
    /\ \E p \in DOMAIN Grid : ~Grid[p].isMine /\ Grid[p].neighborMines = 1

\* The field f of a reset payload is absent or falsy.
FieldMissing(f) == f = <<>> \/ f[1] = 0
AnyFieldMissing(p) == \E i \in 1 .. 3 : FieldMissing(p[i])
\* The value a field stands for when each field is defaulted on its own.
FieldOr(f, d) == IF FieldMissing(f) THEN d ELSE f[1]

\* C10 (as stated): a reset request whose payload has any of rows, cols or mines
\* absent or falsy (mines = 0 included) creates the default match, a 10x10 board
\* with 15 mines.
C10_AnyMissingGivesDefaultMatch ==
    [][\A p \in GenPayloads :
          (Reset(p) /\ AnyFieldMissing(p))
             => /\ fault' = "none"
                /\ gameState'.rows = 10
                /\ gameState'.cols = 10
                /\ gameState'.mines = 15]_vars

\* C10 (amended): a reset request replaces each of rows, cols and mines that is
\* absent or falsy (mines = 0 included) by its own default, 10, 10 and 15, and
\* keeps the fields that are given. When the resulting mines fit the resulting
\* board the new match has exactly these rows, cols and mines and is playing from
\* now; otherwise no match is created and the server stops answering.
C10_EachFieldDefaulted ==
    [][\A p \in GenPayloads :
          Reset(p)
             => LET rows == FieldOr(p[1], 10)
                    cols == FieldOr(p[2], 10)
                    mines == FieldOr(p[3], 15)
                IN  IF mines <= rows * cols
                    THEN /\ fault' = "none"
                         /\ gameState'.rows = rows
                         /\ gameState'.cols = cols
                         /\ gameState'.mines = mines
                         /\ DOMAIN gameState'.grid = Cells(rows, cols)
                         /\ Cardinality({x \in Cells(rows, cols) :
                                            gameState'.grid[x].isMine}) = mines
                         /\ gameState'.status = "playing"
                         /\ gameState'.startTime = now
                    ELSE /\ fault' = "hang"
                         /\ gameState' = gameState]_vars

\* A reset that names a 16x16 board and no mines has produced a 16x16 match with
\* the default 15 mines.
C10_Witness ==
    /\ lastOp.op = "reset"
    /\ fault = "none"
    /\ gameState.rows = 16
    /\ gameState.cols = 16
    /\ gameState.mines = 15
    /\ Cardinality(MineCells) = 15

\* C11 (as stated): a reveal or flag request with out-of-range coordinates is a
\* silent no-op: the match is unchanged and no failure is raised.
C11_OutOfRangeSilentNoOp ==
    [][\A r \in Coords, c \in Coords :
          (/\ ~InGrid(r, c)
           /\ Click(r, c) \/ Flag(r, c))
             => /\ gameState' = gameState
                /\ fault' = "none"]_vars

\* A request for a cell outside the grid of a playing match has thrown a TypeError.
C11_Witness ==
    /\ lastOp.op \in {"click", "flag"}
    /\ lastOp.target = "outside"
    /\ gameState.status = "playing"
    /\ fault = "TypeError"

\* C12: on a freshly generated board with 0 mines and no cell flagged, of any size
\* (1x1 included), the first reveal of any cell reveals every cell of the board
\* and sets status = won (and endTime).
C12_ZeroMinesFirstRevealWins ==
    [][(/\ Handles("click", {"zero", "number", "mine"})
        /\ gameState.mines = 0
        /\ RevealedCells = {}
        /\ FlaggedCells = {})
          => /\ \A p \in DOMAIN gameState'.grid : gameState'.grid[p].isRevealed
             /\ gameState'.grid = [p \in DOMAIN Grid |->
                                      [Grid[p] EXCEPT !.isRevealed = TRUE]]
             /\ gameState'.status = "won"
             /\ gameState'.endTime = now]_vars

\* The first click on the 1x1 board without mines has won the match.
C12_Witness ==
    /\ lastOp.op = "click"
    /\ lastOp.target = "zero"
    /\ gameState.rows = 1
    /\ gameState.cols = 1
    /\ gameState.mines = 0
    /\ gameState.status = "won"
    /\ gameState.grid[<<0, 0>>].isRevealed

\* C13: between two resets no reveal, flag or timeout check changes isMine or
\* neighborMines of any cell, nor rows, cols, mines, startTime or timeLimit of
\* the match.
C13_BoardFixedBetweenResets ==
    [][(/\ now' = now
        /\ lastOp'.op \in {"click", "flag", "tick"})
          => /\ DOMAIN gameState'.grid = DOMAIN Grid
             /\ \A p \in DOMAIN Grid :
                   /\ gameState'.grid[p].isMine = Grid[p].isMine
                   /\ gameState'.grid[p].neighborMines = Grid[p].neighborMines
             /\ gameState'.rows = gameState.rows
             /\ gameState'.cols = gameState.cols
             /\ gameState'.mines = gameState.mines
             /\ gameState'.startTime = gameState.startTime
             /\ gameState'.timeLimit = gameState.timeLimit]_vars

\* A timeout check has ended a match in which cells had been revealed and a cell
\* is flagged.
C13_Witness ==
    /\ lastOp.op = "tick"
    /\ lastOp.ret
    /\ gameState.status = "lost"
    /\ \E p \in RevealedCells : ~Grid[p].isMine
    /\ FlaggedCells # {}

\* C14: a reset handled in any state (playing, won or lost) replaces the match by
\* a new one with status = playing, endTime = null, startTime = now and every
\* cell unrevealed and unflagged: nothing of the reveal or flag state of the match
\* before survives. (The handler has returned: createNewGame ended.)
C14_ResetReplacesMatch ==
    [][(/\ Handles("reset", {"playing", "won", "lost"})
        /\ fault' = "none")
          => /\ gameState'.status = "playing"
             /\ gameState'.endTime = Null
             /\ gameState'.startTime = now
             /\ DOMAIN gameState'.grid = Cells(gameState'.rows, gameState'.cols)
             /\ \A p \in DOMAIN gameState'.grid :
                   /\ ~gameState'.grid[p].isRevealed
                   /\ ~gameState'.grid[p].isFlagged]_vars

\* A reset has replaced a lost match, after the clock has advanced.
C14_Witness ==
    /\ lastOp.op = "reset"
    /\ lastOp.target = "lost"
    /\ fault = "none"
    /\ gameState.status = "playing"
    /\ gameState.startTime = now
    /\ now > StartClock
    /\ RevealedCells = {}
    /\ FlaggedCells = {}

\* The three consistency conditions of a snapshot.
SnapshotConsistent ==
    /\ gameState.status = "playing"
          => /\ \A p \in MineCells : ~Grid[p].isRevealed
             /\ HiddenSafeCells # {}
    /\ gameState.status = "lost" => \A p \in MineCells : Grid[p].isRevealed
    /\ gameState.status = "won"
          => /\ HiddenSafeCells = {}
             /\ \A p \in MineCells : ~Grid[p].isRevealed

\* C15 (as stated): every snapshot the server sends to clients (after a click, a
\* flag, a reset, a tick or on connection) is consistent: playing implies that no
\* mine is revealed and a safe cell is still hidden, lost implies that every mine
\* is revealed, won implies that every safe cell and no mine is revealed.
C15_SentSnapshotsConsistent == lastOp.emit => SnapshotConsistent

\* A snapshot of a playing match without any safe cell has been sent.
C15_Witness ==
    /\ lastOp.emit
    /\ gameState.status = "playing"
    /\ gameState.mines = gameState.rows * gameState.cols
    /\ HiddenSafeCells = {}
    /\ RevealedCells = {}

\* C16: for each match instance the timeout check returns expired = true at most
\* once, on the tick that moves it from playing to lost; every later tick on that
\* match returns false and changes nothing (a lost match stays lost until a reset
\* replaces it), and a tick broadcasts only when it returned true.
C16_ExpiresOnce ==
    [][(now' = now)
          => /\ (lastOp'.op = "tick" /\ lastOp'.ret)
                   => /\ gameState.status = "playing"
                      /\ gameState'.status = "lost"
             /\ (lastOp'.op = "tick" /\ gameState.status # "playing")
                   => /\ ~lastOp'.ret
                      /\ gameState' = gameState
             /\ (lastOp'.op = "tick") => (lastOp'.emit <=> lastOp'.ret)
             /\ (gameState.status = "lost" /\ lastOp'.op # "reset")
                   => gameState' = gameState]_vars

\* A tick on a match that was lost when its time had run out has returned false
\* and has not broadcast.
C16_Witness ==
    /\ lastOp.op = "tick"
    /\ ~lastOp.ret
    /\ ~lastOp.emit
    /\ gameState.status = "lost"
    /\ gameState.endTime = now
    /\ Elapsed(gameState, now) >= gameState.timeLimit

\* C17: the time limit of a new match is 120 s for a 10x10 board, 300 s for
\* rows = 16 and cols = 16, 600 s for rows = 16 and cols = 30, and 120 s for every
\* other (rows, cols) pair (30x16 included), whatever the mine count.
C17_TimeLimitTable ==
    (/\ lastOp.op \in {"init", "reset"}
     /\ fault = "none")
       => gameState.timeLimit =
             (IF gameState.rows = 10 /\ gameState.cols = 10 THEN 120
              ELSE IF gameState.rows = 16 /\ gameState.cols = 16 THEN 300
              ELSE IF gameState.rows = 16 /\ gameState.cols = 30 THEN 600
              ELSE 120)

\* A reset has created a 30x16 match, which has the limit of 120 s.
C17_Witness ==
    /\ lastOp.op = "reset"
    /\ fault = "none"
    /\ gameState.rows = 30
    /\ gameState.cols = 16
    /\ gameState.timeLimit = 120

\* C18: a flag operation changes at most the isFlagged field of the target cell:
\* status and endTime stay as they are (playing and null for a playing match), no
\* cell's isRevealed and no other cell's isFlagged changes, so flagging never ends
\* the match, not even when every mine is flagged.
C18_FlagFrame ==
    [][(/\ now' = now
        /\ lastOp'.op = "flag")
          => LET changed == {p \in DOMAIN Grid :
                                gameState'.grid[p].isFlagged # Grid[p].isFlagged}
             IN  /\ gameState'.status = gameState.status
                 /\ gameState'.endTime = gameState.endTime
                 /\ gameState.status = "playing" => gameState'.endTime = Null
                 /\ gameState'.rows = gameState.rows
                 /\ gameState'.cols = gameState.cols
                 /\ gameState'.mines = gameState.mines
                 /\ gameState'.startTime = gameState.startTime
                 /\ gameState'.timeLimit = gameState.timeLimit
                 /\ DOMAIN gameState'.grid = DOMAIN Grid
                 /\ \A p \in DOMAIN Grid :
                       /\ gameState'.grid[p].isRevealed = Grid[p].isRevealed
                       /\ gameState'.grid[p].isMine = Grid[p].isMine
                       /\ gameState'.grid[p].neighborMines = Grid[p].neighborMines
                 /\ Cardinality(changed) <= 1
                 /\ \A p \in changed :
                       /\ TargetKind(gameState, p[1], p[2]) = lastOp'.target
                       /\ Flag(p[1], p[2])]_vars

\* A flag has been put on the last unflagged mine: every mine is flagged and the
\* match is still playing.
C18_Witness ==
    /\ lastOp.op = "flag"
    /\ lastOp.target = "mine"
    /\ MineCells # {}
    /\ MineCells \subseteq FlaggedCells
    /\ gameState.status = "playing"
    /\ gameState.endTime = Null

\* C19: a losing transition (mine reveal or timeout) changes only status, endTime
\* and isRevealed of mine cells: isFlagged of every cell (flagged mines included)
\* and isRevealed of every safe cell are as before the operation.
C19_LosingFrame ==
    [][(/\ now' = now
        /\ lastOp'.op \in {"click", "tick"}
        /\ gameState.status = "playing"
        /\ gameState'.status = "lost")
          => /\ gameState'.endTime = now
             /\ gameState'.rows = gameState.rows
             /\ gameState'.cols = gameState.cols
             /\ gameState'.mines = gameState.mines
             /\ gameState'.startTime = gameState.startTime
             /\ gameState'.timeLimit = gameState.timeLimit
             /\ DOMAIN gameState'.grid = DOMAIN Grid
             /\ \A p \in DOMAIN Grid :
                   /\ gameState'.grid[p].isFlagged = Grid[p].isFlagged
                   /\ gameState'.grid[p].isMine = Grid[p].isMine
                   /\ gameState'.grid[p].neighborMines = Grid[p].neighborMines
                   /\ ~Grid[p].isMine
                         => gameState'.grid[p].isRevealed = Grid[p].isRevealed
                   /\ Grid[p].isMine => gameState'.grid[p].isRevealed]_vars

\* A click on a mine has lost a match in which another mine is flagged, a safe
\* cell is revealed and a safe cell is hidden.
C19_Witness ==
    /\ lastOp.op = "click"
    /\ lastOp.target = "mine"
    /\ gameState.status = "lost"
    /\ \E p \in MineCells : Grid[p].isFlagged /\ Grid[p].isRevealed
    /\ \E p \in RevealedCells : ~Grid[p].isMine
    /\ HiddenSafeCells # {}

\* The cells of the sequence tr are cells of the grid that were unrevealed before
\* the call, none occurs twice, and there are at most rows * cols of them.
EachOnce(tr) ==
    /\ Len(tr) <= gameState.rows * gameState.cols
    /\ \A i \in 1 .. Len(tr) : tr[i] \in DOMAIN Grid /\ ~Grid[tr[i]].isRevealed
    /\ \A i \in 1 .. Len(tr), j \in 1 .. Len(tr) : tr[i] = tr[j] => i = j
CellsOf(tr) == {tr[i] : i \in 1 .. Len(tr)}

\* C20: every reveal call ends, on every board: each nested (server) or queued
\* (client) expansion step first marks a cell that was unrevealed as revealed, a
\* revealed cell is never expanded again, and one reveal expands at most
\* rows * cols cells. The expansion steps of the server are exactly the cells the
\* call reveals (the other mines of a losing reveal aside), and so are the cells
\* the client marks; the cells the client queues are among those it marked.
C20_RevealExpandsEachCellOnce ==
    [][Handles("click", {"mine", "zero", "number"})
          => \A r \in Coords, c \in Coords :
                (TargetKind(gameState, r, c) = lastOp'.target /\ Click(r, c))
                   => \A tr \in {revealTrace(gameState, r, c, now)},
                         app \in {AppRevealCell(gameState, r, c, now)},
                         safe \in {{p \in DOMAIN Grid : ~Grid[p].isMine}
                                      \cup {<<r, c>>}} :
                          /\ EachOnce(tr)
                          /\ tr[1] = <<r, c>>
                          /\ CellsOf(tr) =
                                {p \in safe : /\ gameState'.grid[p].isRevealed
                                              /\ ~Grid[p].isRevealed}
                          /\ EachOnce(app.marked)
                          /\ app.marked[1] = <<r, c>>
                          /\ CellsOf(app.marked) =
                                {p \in safe : /\ app.state.grid[p].isRevealed
                                              /\ ~Grid[p].isRevealed}
                          /\ EachOnce(app.dequeued)
                          /\ CellsOf(app.dequeued) \subseteq CellsOf(app.marked)
                          /\ \A p \in CellsOf(app.dequeued) :
                                Grid[p].neighborMines = 0]_vars

\* A click on a zero cell has revealed, in one call, at least five cells of a
\* board with a mine.
C20_Witness ==
    /\ lastOp.op = "click"
    /\ lastOp.target = "zero"
    /\ gameState.mines >= 1
    /\ Cardinality({p \in RevealedCells : Grid[p].neighborMines = 0}) >= 2
    /\ Cardinality(RevealedCells) >= 5

\* ---------------------------------------------------------------------------
\* C21: the server's flood fill is iterative: during one reveal no activation
\* of revealCell that reveals a cell is pending inside another one, whatever
\* the size of the zero region, so the number of pending activations is the
\* constant 1.  The recursion of lines 115-126 nests one activation per cell
\* of a path through the region, so the statement fails.
C21_RevealNestingBounded ==
    [][Handles("click", {"mine", "zero", "number"})
          => \A r \in Coords, c \in Coords :
                (TargetKind(gameState, r, c) = lastOp'.target /\ Click(r, c))
                   => revealDepth(gameState, r, c, now) <= 1]_vars

\* A match with a mine in which one reveal keeps four activations pending
\* at once.
C21_Witness ==
    /\ gameState.status = "playing"
    /\ gameState.mines >= 1
    /\ \E p \in DOMAIN Grid : revealDepth(gameState, p[1], p[2], now) >= 4

\* ---------------------------------------------------------------------------
\* C22: the reset handler rejects or clamps a mine count outside
\* 0 <= mines < rows*cols, so every reset request ends, and ends with a
\* playing match whose mine count is below its number of cells and that has
\* at least one safe cell.  The handler passes the defaulted fields to
\* createNewGame unchecked (lines 203-206), so the statement fails.
C22_ResetEndsWithSafeCell ==
    [][lastOp'.op = "reset" /\ now' = now
          => /\ fault' = "none"
             /\ gameState'.status = "playing"
             /\ gameState'.mines >= 0
             /\ gameState'.mines < gameState'.rows * gameState'.cols
             /\ \E p \in DOMAIN gameState'.grid : ~gameState'.grid[p].isMine]_vars

\* A reset request whose placement loop (lines 52-61) never ends: the match
\* it was to replace is still the current one and nothing was sent.
C22_Witness ==
    /\ lastOp.op = "reset"
    /\ ~lastOp.emit
    /\ fault = "hang"

\* ---------------------------------------------------------------------------
\* C23: in every reachable state endTime is null exactly when the match is
\* playing, and startTime is set.  As both sides change together in one step,
\* endTime is set by the operation that ends the match: it is the time of
\* that operation, between the start of the match and the present.
C23_EndTimeIffEnded ==
    /\ (gameState.endTime = Null) <=> (gameState.status = "playing")
    /\ gameState.startTime # Null
    /\ gameState.startTime # 0
    /\ gameState.startTime <= now
    /\ gameState.status # "playing"
          => gameState.startTime <= gameState.endTime /\ gameState.endTime <= now

\* A match won by a reveal some time after its start, with its end time set.
C23_Witness ==
    /\ gameState.status = "won"
    /\ lastOp.op = "click"
    /\ gameState.endTime # Null
    /\ gameState.endTime > gameState.startTime

\* ---------------------------------------------------------------------------
\* C24: every change of the match is broadcast by the handler that made it,
\* and a client that connects is sent the current snapshot: the snapshot the
\* connected client holds is the current match, or the current match is the
\* last of the snapshots on their way to it.
C24_ClientNeverBehind ==
    Joined => IF inbox = <<>>
              THEN clientState = <<gameState>>
              ELSE inbox[Len(inbox)] = gameState

\* The client holds the snapshot of a match that has expired: the timeout
\* was broadcast by the tick and has been received.
C24_Witness ==
    /\ clientState = <<gameState>>
    /\ inbox = <<>>
    /\ gameState.status = "lost"
    /\ lastOp.op = "tick"
    /\ lastOp.emit

\* ---------------------------------------------------------------------------
\* C25: a click or flag that a client sent for a cell of the board it last
\* received never indexes a cell outside the current grid, also when another
\* client's reset has replaced the board in between: the request is for an
\* in-range cell of the current match (or has no effect), and the handler
\* returns.  Under SpecNet every click and flag is such a request; the
\* handlers index gameState.grid unchecked, so the statement fails.
C25_StaleRequestInRange ==
    lastOp.op \in {"click", "flag"}
       => /\ lastOp.target # "outside"
          /\ fault = "none"

\* The client still holds the 2x3 board, the current match is the smaller
\* board of the other client's reset, and the client's click for a cell of
\* its board has thrown in the handler.
C25_Witness ==
    /\ clientState # <<>>
    /\ clientState[1].rows > gameState.rows
    /\ inbox # <<>>
    /\ inbox[Len(inbox)] = gameState
    /\ lastOp.op = "click"
    /\ lastOp.target = "outside"
    /\ fault = "TypeError"

\* ---------------------------------------------------------------------------
\* C26: from the same match and the same in-range cell, revealCell of the
\* server (recursive) and revealCell of the standalone client (worklist) give
\* the same status and the same isRevealed and isFlagged of every cell, also
\* when the server reaches the win inside its recursion; they also record
\* the same end time.
C26_ServerAndClientRevealAgree ==
    \A p \in DOMAIN Grid :
       \A srv \in {revealCell(gameState, p[1], p[2], now)},
          app \in {AppRevealCell(gameState, p[1], p[2], now).state} :
          /\ srv.status = app.status
          /\ srv.endTime = app.endTime
          /\ DOMAIN srv.grid = DOMAIN app.grid
          /\ \A q \in DOMAIN Grid :
                /\ srv.grid[q].isRevealed = app.grid[q].isRevealed
                /\ srv.grid[q].isFlagged = app.grid[q].isFlagged

\* A playing match with a mine and a flagged cell in which the reveal of a
\* zero cell wins inside a nested activation of the server's recursion.
C26_Witness ==
    /\ gameState.status = "playing"
    /\ gameState.mines >= 1
    /\ FlaggedCells # {}
    /\ \E p \in DOMAIN Grid :
          /\ TargetKind(gameState, p[1], p[2]) = "zero"
          /\ revealDepth(gameState, p[1], p[2], now) >= 3
          /\ revealCell(gameState, p[1], p[2], now).status = "won"

\* ---------------------------------------------------------------------------
\* C27: while the clock advances and the tick keeps firing, a playing match
\* is eventually won or lost, unless a reset replaces it first (or the
\* server has stopped on a fault, after which no tick fires).
C27_MatchEventuallyEnds ==
    (gameState.status = "playing")
       ~> (gameState.status # "playing" \/ lastOp.op = "reset" \/ fault # "none")

\* A match in which no safe cell was ever revealed has been ended by the tick.
C27_Witness ==
    /\ gameState.status = "lost"
    /\ lastOp.op = "tick"
    /\ lastOp.ret
    /\ fault = "none"
    /\ \A p \in DOMAIN Grid : Grid[p].isRevealed => Grid[p].isMine

====
